---- MODULE Spec2Model ----
(***************************************************************************)
(* Calendar availability and meeting booking of service-find-calendar-slot.*)
(*                                                                         *)
(* Instants are whole minutes since Sunday 2025-06-01T00:00:00Z, so that   *)
(* day 0 is a Sunday, day 1 is Monday 2025-06-02, day 2 a Tuesday.  The    *)
(* process time zone is a fixed offset tz (minutes east of UTC).  Slot     *)
(* lengths and durations, hours in the code, are carried in minutes.       *)
(***************************************************************************)
EXTENDS Integers, Sequences, FiniteSets, TLC

VARIABLES
    tz,        \* local time zone offset of the process, minutes east of UTC
    config,    \* the environment configuration read by getEnvConfig
    calendar,  \* the remote CalDAV calendar: a sequence of calendar objects
    req,       \* per request: position in its handler and its local variables
    nCalls,    \* number of requests started so far
    gen,       \* inputs and output of a direct call of generateAvailableSlots
    proj,      \* inputs and output of a direct call of parseEventsToTimeRanges
    booked,    \* the requested windows of the bookings that succeeded, in order
    offered    \* the slots of the last answered slots request, and the number
               \* of calendar writes before it

vars == <<tz, config, calendar, req, nCalls, gen, proj, booked, offered>>

----------------------------------------------------------------------------
(* Bounds of the model *)

MaxCalls == 2      \* requests handled one after the other
MaxBusy == 2       \* busy intervals handed to a direct generator call
MaxEvents == 2     \* calendar objects handed to a direct projector call

(* Units *)
HourMinutes == 60
StepMinutes == 30
DayMinutes == 24 * HourMinutes

Sunday == 0 * DayMinutes
Monday == 1 * DayMinutes
Tuesday == 2 * DayMinutes

TZOffsets == {0, 2 * HourMinutes, 0 - 3 * HourMinutes}

----------------------------------------------------------------------------
(* Date arithmetic *)

\* the local calendar day an instant falls on
localDay(t) == (t + tz) \div DayMinutes

\* Date.prototype.getDay: 0 = Sunday
getDay(t) == localDay(t) % 7

\* d.setHours(h, 0, 0, 0): local wall-clock hour h of d's local day
setHours(t, h) == localDay(t) * DayMinutes + h * HourMinutes - tz

\* Date.prototype.toISOString: the UTC date part and the UTC time part
toISOString(t) == [date |-> t \div DayMinutes, time |-> t % DayMinutes]

\* new Date(isoString).getTime()
dateFromISO(s) == s.date * DayMinutes + s.time

----------------------------------------------------------------------------
(* Slot generator *)

\* the three-way overlap test of one candidate against one busy interval
overlapsBusyDropEnd(cs, ce, b) ==
    \/ (cs >= b.start /\ cs < b.end)
    \/ (cs <= b.start /\ ce >= b.end)

overlapsBusyClosed(cs, ce, b) ==
    \/ (cs >= b.start /\ cs <= b.end)
    \/ (ce >= b.start /\ ce <= b.end)
    \/ (cs <= b.start /\ ce >= b.end)

\* an overlap test that looks at the candidate's start only
overlapsBusyStartOnly(cs, ce, b) ==
    cs >= b.start /\ cs < b.end

overlapsBusy(cs, ce, b) ==
    \/ (cs >= b.start /\ cs < b.end)
    \/ (ce > b.start /\ ce <= b.end)
    \/ (cs <= b.start /\ ce >= b.end)

\* busySlots.some(...)
isOverlapping(cs, ce, busySlots) ==
    \E i \in 1..Len(busySlots) : overlapsBusy(cs, ce, busySlots[i])

\* the end of a candidate that starts at cs
slotEnd(cs, len) == cs + len

\* the loop condition: the candidate still ends inside the range
fitsRangeStrict(cur, len, rangeEnd) == cur + len < rangeEnd

fitsRange(cur, len, rangeEnd) == cur + len <= rangeEnd

\* the while loop over one range
RECURSIVE scanRange(_, _, _, _)
scanRangeHalfStep(cur, rangeEnd, busySlots, len) ==
    IF fitsRange(cur, len, rangeEnd)
    THEN LET ce == slotEnd(cur, len)
             hit == IF isOverlapping(cur, ce, busySlots)
                    THEN <<>>
                    ELSE <<[start |-> toISOString(cur), end |-> toISOString(ce)]>>
         IN  hit \o scanRange(cur + StepMinutes \div 2, rangeEnd, busySlots, len)
    ELSE <<>>

scanRangeStepByLength(cur, rangeEnd, busySlots, len) ==
    IF fitsRange(cur, len, rangeEnd)
    THEN LET ce == slotEnd(cur, len)
             hit == IF isOverlapping(cur, ce, busySlots)
                    THEN <<>>
                    ELSE <<[start |-> toISOString(cur), end |-> toISOString(ce)]>>
         IN  hit \o scanRange(cur + len, rangeEnd, busySlots, len)
    ELSE <<>>

scanRangeDescending(cur, rangeEnd, busySlots, len) ==
    IF fitsRange(cur, len, rangeEnd)
    THEN LET ce == slotEnd(cur, len)
             hit == IF isOverlapping(cur, ce, busySlots)
                    THEN <<>>
                    ELSE <<[start |-> toISOString(cur), end |-> toISOString(ce)]>>
         IN  scanRange(cur + StepMinutes, rangeEnd, busySlots, len) \o hit
    ELSE <<>>

scanRange(cur, rangeEnd, busySlots, len) ==
    IF fitsRange(cur, len, rangeEnd)
    THEN LET ce == slotEnd(cur, len)
             hit == IF isOverlapping(cur, ce, busySlots)
                    THEN <<>>
                    ELSE <<[start |-> toISOString(cur), end |-> toISOString(ce)]>>
         IN  hit \o scanRange(cur + StepMinutes, rangeEnd, busySlots, len)
    ELSE <<>>

\* one pass of the for loop: what one range adds to availableSlots
rangeSlots(date, range, busySlots, len) ==
    scanRange(setHours(date, range.start), setHours(date, range.end), busySlots, len)

\* the for loop over the ranges, from range i on
RECURSIVE scanRanges(_, _, _, _, _)
scanRanges(date, ranges, busySlots, len, i) ==
    IF i > Len(ranges)
    THEN <<>>
    ELSE rangeSlots(date, ranges[i], busySlots, len)
         \o scanRanges(date, ranges, busySlots, len, i + 1)

generateAvailableSlots(date, availableRanges, busySlots, len) ==
    scanRanges(date, availableRanges, busySlots, len, 1)

\* what the caller's argument objects hold once generateAvailableSlots has
\* returned; the alternative is a generator that sets the hours on the
\* caller's Date instead of on a copy
argsAfterCallAliased(date, availableRanges, busySlots, len) ==
    [date |-> IF availableRanges = <<>> THEN date
              ELSE setHours(date, availableRanges[Len(availableRanges)].end),
     ranges |-> availableRanges, busy |-> busySlots, len |-> len]

\* rangeStart, rangeEnd and currentSlotStart are fresh Dates (new Date(date),
\* new Date(rangeStart), new Date(getTime() + ...)); ranges and busySlots are
\* only read
argsAfterCall(date, availableRanges, busySlots, len) ==
    [date |-> date, ranges |-> availableRanges, busy |-> busySlots, len |-> len]

----------------------------------------------------------------------------
(* Weekly availability configuration *)

DayKeys == {"SUN", "MON", "TUE", "WED", "THU", "FRI", "SAT"}

dayMap == <<"SUN", "MON", "TUE", "WED", "THU", "FRI", "SAT">>

\* The raw strings are carried as token lists: "8-10,14-17" is
\* <<<<8, 10>>, <<14, 17>>>>, the empty string is <<>>, and "0.5,1" is <<30, 60>>.
parseTimeRanges(rangeString) ==
    [i \in 1..Len(rangeString) |->
        [start |-> rangeString[i][1], end |-> rangeString[i][2]]]

parseSlotLengths(lengthString) ==
    IF lengthString = <<>> THEN <<HourMinutes>> ELSE lengthString

getCalendarConfig ==
    [availableSlots |-> [d \in DayKeys |-> parseTimeRanges(config[d])],
     slotLengths |-> parseSlotLengths(config["SLOTS_LENGTH"])]

envConfig(mon, tue, lengths) ==
    [k \in DayKeys \cup {"SLOTS_LENGTH"} |->
        CASE k = "MON" -> mon
          [] k = "TUE" -> tue
          [] k = "SLOTS_LENGTH" -> lengths
          [] OTHER -> <<>>]

Configs ==
    { envConfig(<<<<8, 12>>>>, <<<<8, 10>>, <<14, 17>>>>, <<30, 60, 90>>),
      envConfig(<<<<22, 24>>>>, <<<<0, 2>>>>, <<>>),
      envConfig(<<<<20, 23>>>>, <<>>, <<60, 30>>) }

----------------------------------------------------------------------------
(* Calendar objects and event descriptor extraction *)

\* A calendar object: whether it carries data, whether the data holds the
\* BEGIN:VEVENT and END:VEVENT markers, and its DTSTART and DTEND tokens.  A
\* token has a form ("utc" YYYYMMDDThhmmssZ, "local" YYYYMMDDThhmmss, "iso"
\* YYYY-MM-DDThh:mm:ssZ, "bad" any other text, "none" no such line) and the
\* clock reading it spells.
token(form, t) == [form |-> form, t |-> t]

undefinedDate == [ok |-> FALSE, t |-> 0]

\* parseICalDate
parseICalDate(tok) ==
    CASE tok.form = "utc" -> [ok |-> TRUE, t |-> tok.t]
      [] tok.form = "local" -> [ok |-> TRUE, t |-> tok.t - tz]
      [] tok.form = "iso" -> [ok |-> TRUE, t |-> tok.t]
      [] OTHER -> undefinedDate

\* manualExtractEventData
manualExtractEventData(obj) ==
    [start |-> IF obj.dtstart.form = "none" THEN undefinedDate
               ELSE parseICalDate(obj.dtstart),
     end |-> IF obj.dtend.form = "none" THEN undefinedDate
             ELSE parseICalDate(obj.dtend)]

\* a text that new Date(text) cannot read: truthy, and an Invalid Date once
\* converted
invalidDate == [ok |-> TRUE, t |-> 0, invalid |-> TRUE]

isInvalidDate(d) == "invalid" \in DOMAIN d

\* the ical library's decoding of a date property of the first VEVENT: a Date
\* for the two compact forms, the raw text for any other value
icalDate(tok) ==
    CASE tok.form = "utc" -> [ok |-> TRUE, t |-> tok.t]
      [] tok.form = "local" -> [ok |-> TRUE, t |-> tok.t - tz]
      [] tok.form = "iso" -> [ok |-> TRUE, t |-> tok.t]
      [] tok.form = "bad" -> invalidDate
      [] OTHER -> undefinedDate

\* parseICS
parseICS(obj) ==
    IF ~obj.markers
    THEN [start |-> undefinedDate, end |-> undefinedDate]
    ELSE LET event == [start |-> icalDate(obj.dtstart), end |-> icalDate(obj.dtend)]
         IN  IF ~event.start.ok \/ ~event.end.ok
             THEN manualExtractEventData(obj)
             ELSE event

\* the overlap checks without the one for an event that spans the day
overlapsDateNoSpan(eventStart, eventEnd, date) ==
    LET dateStart == setHours(date, 0)
        nextDay == dateStart + DayMinutes
        startOnDate == eventStart >= dateStart /\ eventStart < nextDay
        endOnDate == eventEnd >= dateStart /\ eventEnd < nextDay
    IN  startOnDate \/ endOnDate

\* the overlap checks of parseEventsToTimeRanges; dateEnd is 23:59:59.999, one
\* millisecond short of the next local midnight, and instants are whole minutes
\* the day filter that keeps only the events starting on the day
overlapsDateStartOnly(eventStart, eventEnd, date) ==
    LET dateStart == setHours(date, 0)
        nextDay == dateStart + DayMinutes
    IN  eventStart >= dateStart /\ eventStart < nextDay

overlapsDate(eventStart, eventEnd, date) ==
    LET dateStart == setHours(date, 0)
        nextDay == dateStart + DayMinutes
        startOnDate == eventStart >= dateStart /\ eventStart < nextDay
        endOnDate == eventEnd >= dateStart /\ eventEnd < nextDay
        spansDate == eventStart <= dateStart /\ eventEnd >= nextDay
    IN  startOnDate \/ endOnDate \/ spansDate

\* eventStart.toISOString() of an Invalid Date throws a RangeError, which the
\* catch around each event absorbs
toISOStringThrows(eventData) ==
    isInvalidDate(eventData.start) \/ isInvalidDate(eventData.end)

\* the body of the loop of parseEventsToTimeRanges: what one object adds to
\* busySlots
busyOfEvent(event, date) ==
    LET eventData == parseICS(event)
    IN  IF /\ event.data
           /\ eventData.start.ok /\ eventData.end.ok
           /\ ~toISOStringThrows(eventData)
           /\ overlapsDate(eventData.start.t, eventData.end.t, date)
        THEN <<[start |-> eventData.start.t, end |-> eventData.end.t]>>
        ELSE <<>>

\* parseEventsToTimeRanges, from object i on
RECURSIVE eventsToTimeRanges(_, _, _)
eventsToTimeRangesAborting(events, date, i) ==
    IF i > Len(events)
    THEN <<>>
    ELSE IF events[i].data /\ toISOStringThrows(parseICS(events[i]))
    THEN <<>>
    ELSE busyOfEvent(events[i], date) \o eventsToTimeRanges(events, date, i + 1)

eventsToTimeRanges(events, date, i) ==
    IF i > Len(events)
    THEN <<>>
    ELSE busyOfEvent(events[i], date) \o eventsToTimeRanges(events, date, i + 1)

parseEventsToTimeRanges(events, date) == eventsToTimeRanges(events, date, 1)

\* generateICSContent: a VEVENT whose DTSTART and DTEND are compact UTC tokens
generateICSContent(event) ==
    [data |-> TRUE, markers |-> TRUE,
     dtstart |-> token("utc", dateFromISO(event.startTime)),
     dtend |-> token("utc", dateFromISO(event.endTime))]

\* The CalDAV server's answer to the time-range query for the day of date: the
\* objects whose event intersects the local day.
inTimeRange(obj, date) ==
    LET ev == manualExtractEventData(obj)
        dateStart == setHours(date, 0)
    IN  /\ obj.data /\ ev.start.ok /\ ev.end.ok
        /\ ev.start.t < dateStart + DayMinutes
        /\ (ev.end.t > dateStart \/ (ev.end.t = ev.start.t /\ ev.start.t >= dateStart))

RECURSIVE timeRangeObjects(_, _, _)
timeRangeObjects(objs, date, i) ==
    IF i > Len(objs)
    THEN <<>>
    ELSE (IF inTimeRange(objs[i], date) THEN <<objs[i]>> ELSE <<>>)
         \o timeRangeObjects(objs, date, i + 1)

calendarObject(s, e) ==
    [data |-> TRUE, markers |-> TRUE, dtstart |-> token("utc", s), dtend |-> token("utc", e)]

InitCalendars ==
    { <<>>,
      <<calendarObject(Monday + 9 * HourMinutes, Monday + 10 * HourMinutes)>>,
      << [data |-> FALSE, markers |-> FALSE,
          dtstart |-> token("none", 0), dtend |-> token("none", 0)],
         [data |-> TRUE, markers |-> TRUE,
          dtstart |-> token("local", Monday + 8 * HourMinutes),
          dtend |-> token("local", Monday + 8 * HourMinutes + StepMinutes)],
         calendarObject(Tuesday + 8 * HourMinutes, Tuesday + 9 * HourMinutes) >> }

----------------------------------------------------------------------------
(* Requests: POST booking (bookMeeting) and GET slots (getAvailableSlotsForDay) *)

Requests == {1, 2}

\* the requests that the sequential specification runs
Sequential == {1}

noResult == [success |-> FALSE, error |-> <<>>, slots |-> <<>>]

reqIdle ==
    [pc |-> "idle", kind |-> "none",
     start |-> undefinedDate, duration |-> 0,   \* params.start, params.duration
     startTime |-> 0, endTime |-> 0,             \* bookMeeting's locals
     date |-> 0, slotLength |-> 0,               \* getAvailableSlotsForDay's arguments
     availableSlots |-> <<>>, checked |-> FALSE, \* bookMeeting's availableSlots
     result |-> noResult,
     meetingResponse |-> "none",                 \* "ok", "error" (an error object), "threw"
     eventUid |-> "none",                        \* "ok" or "threw"
     calendarObjects |-> <<>>,                   \* what the time-range query returned
     events |-> <<>>, fetched |-> FALSE,         \* what fetchCalendarEventsForDay returned
     timeRangeError |-> FALSE,                   \* the time-range query threw
     fetchError |-> "",                          \* what fetchCalendarEventsForDay caught
     hist |-> <<>>,                              \* the collaborator calls, in order
     roomArgs |-> <<>>, eventArgs |-> <<>>]      \* the arguments of those calls

\* ToIntegerOrInfinity of an hour count given in minutes
truncHours(minutes) ==
    IF minutes >= 0 THEN minutes \div HourMinutes ELSE 0 - ((0 - minutes) \div HourMinutes)

\* endTime.setHours(endTime.getHours() + params.duration): the hour argument
\* is truncated to an integer, minutes and seconds are kept
addDuration(startTime, duration) == startTime + truncHours(duration) * HourMinutes

finish(rec, success, error, slots) ==
    [rec EXCEPT !.pc = "done",
                !.result = [success |-> success, error |-> error, slots |-> slots]]

\* bookMeeting from the availability check to the room creation
isSlotAvailableInside(rec, slots) ==
    \E i \in 1..Len(slots) :
        /\ dateFromISO(slots[i].start) <= rec.startTime
        /\ rec.startTime < dateFromISO(slots[i].end)

\* the slot lookup comparing the slot's end with the computed end time
isSlotAvailableByEnd(rec, slots) ==
    \E i \in 1..Len(slots) :
        /\ slots[i].start = toISOString(rec.startTime)
        /\ slots[i].end = toISOString(rec.endTime)

isSlotAvailable(rec, slots) ==
    \E i \in 1..Len(slots) :
        /\ slots[i].start = toISOString(rec.startTime)
        /\ dateFromISO(slots[i].end) - dateFromISO(slots[i].start) = rec.duration

sameDayInverted(startTime, endTime) ==
    toISOString(startTime).date # toISOString(endTime).date

sameDay(startTime, endTime) ==
    toISOString(startTime).date = toISOString(endTime).date

\* the two checks in the other order: same day first, then availability
afterAvailabilityDayFirst(rec, slots) ==
    LET seen == [rec EXCEPT !.availableSlots = slots, !.checked = TRUE]
    IN  IF ~sameDay(rec.startTime, rec.endTime)
        THEN finish(seen, FALSE, <<"The start date and end date are not the same">>, <<>>)
        ELSE IF ~isSlotAvailable(rec, slots)
        THEN finish(seen, FALSE, <<"The requested time slot is no longer available">>, <<>>)
        ELSE [seen EXCEPT !.pc = "room"]

afterAvailability(rec, slots) ==
    LET seen == [rec EXCEPT !.availableSlots = slots, !.checked = TRUE]
    IN  IF ~isSlotAvailable(rec, slots)
        THEN finish(seen, FALSE, <<"The requested time slot is no longer available">>, <<>>)
        ELSE IF ~sameDay(rec.startTime, rec.endTime)
        THEN finish(seen, FALSE, <<"The start date and end date are not the same">>, <<>>)
        ELSE [seen EXCEPT !.pc = "room"]

\* getAvailableSlotsForDay returns slots to its caller
availReturn(rec, slots) ==
    IF rec.kind = "book"
    THEN afterAvailability(rec, slots)
    ELSE finish(rec, TRUE, <<>>, slots)

\* getAvailableSlotsForDay throws: the outer catch wraps the message, and
\* bookMeeting's catch wraps it again
availThrow(rec, message) ==
    IF rec.kind = "book"
    THEN finish(rec, FALSE,
                <<"Failed to book meeting", "Failed to get available slots">> \o message, <<>>)
    ELSE finish(rec, FALSE, <<"Failed to get available slots">> \o message, <<>>)

includes(seq, x) == \E i \in 1..Len(seq) : seq[i] = x

validSlotLength(slotLength) == includes(getCalendarConfig.slotLengths, slotLength)

availableRangesOf(date) == getCalendarConfig.availableSlots[dayMap[getDay(date) + 1]]

noRangesNever(date) == FALSE

noRanges(date) == Len(availableRangesOf(date)) = 0

\* getAvailableSlotsForDay up to its first remote call
getAvailableSlotsForDayRangesFirst(rec) ==
    IF noRanges(rec.date)
    THEN availReturn(rec, <<>>)
    ELSE IF ~validSlotLength(rec.slotLength)
    THEN availThrow(rec, <<"Invalid slot length">>)
    ELSE [rec EXCEPT !.pc = "connect"]

getAvailableSlotsForDay(rec) ==
    IF ~validSlotLength(rec.slotLength)
    THEN availThrow(rec, <<"Invalid slot length">>)
    ELSE IF noRanges(rec.date)
    THEN availReturn(rec, <<>>)
    ELSE [rec EXCEPT !.pc = "connect"]

\* getAvailableSlotsForDay once the calendar objects are fetched
slotsFromEvents(rec, events) ==
    availReturn([rec EXCEPT !.events = events, !.fetched = TRUE],
        generateAvailableSlots(rec.date, availableRangesOf(rec.date),
                               parseEventsToTimeRanges(events, rec.date),
                               rec.slotLength))

\* fetchCalendarEventsForDay throws: its catch and the inner catch of
\* getAvailableSlotsForDay wrap the cause
fetchThrowSwallowed(rec, cause) ==
    availReturn([rec EXCEPT !.fetchError = cause], <<>>)

fetchThrow(rec, cause) ==
    availThrow([rec EXCEPT !.fetchError = cause],
               <<"Calendar error", "Failed to fetch calendar events", cause>>)

\* a bookMeeting that does not test isNaN(startTime.getTime())
bookMeetingUnvalidated(start, duration) ==
    LET rec == [reqIdle EXCEPT !.kind = "book", !.start = start, !.duration = duration]
    IN  getAvailableSlotsForDay(
            [rec EXCEPT !.startTime = start.t,
                        !.endTime = addDuration(start.t, duration),
                        !.date = start.t,
                        !.slotLength = duration])

\* bookMeeting up to its first remote call
bookMeeting(start, duration) ==
    LET rec == [reqIdle EXCEPT !.kind = "book", !.start = start, !.duration = duration]
    IN  IF ~start.ok
        THEN finish(rec, FALSE, <<"Invalid start time">>, <<>>)
        ELSE getAvailableSlotsForDay(
                 [rec EXCEPT !.startTime = start.t,
                             !.endTime = addDuration(start.t, duration),
                             !.date = start.t,
                             !.slotLength = duration])

\* the route GET /calendar/slots/:date
\* the route answering from the slots of the request before, when it has some
slotsRouteCached(date, slotLength) ==
    LET rec == [reqIdle EXCEPT !.kind = "slots", !.date = date, !.slotLength = slotLength]
    IN  IF Len(offered.slots) > 0
        THEN finish(rec, TRUE, <<>>, offered.slots)
        ELSE getAvailableSlotsForDay(rec)

slotsRoute(date, slotLength) ==
    getAvailableSlotsForDay(
        [reqIdle EXCEPT !.kind = "slots", !.date = date, !.slotLength = slotLength])

called(rec, op) == [rec EXCEPT !.hist = Append(@, op)]

\* if (meetingResponse.error)
hasErrorNever(meetingResponse) == FALSE

hasError(meetingResponse) == meetingResponse = "error"

\* a bookMeeting that tries the room creation again when apiRequest throws
afterRoomRetrying(rec, meetingResponse) ==
    LET got == [rec EXCEPT !.meetingResponse = meetingResponse]
    IN  IF meetingResponse = "threw"
        THEN got
        ELSE IF hasError(meetingResponse)
        THEN finish(got, FALSE, <<"Failed to create meeting room", "api error">>, <<>>)
        ELSE [got EXCEPT !.pc = "event"]

\* bookMeeting once createMeetingRoom has answered or thrown
afterRoom(rec, meetingResponse) ==
    LET got == [rec EXCEPT !.meetingResponse = meetingResponse]
    IN  IF meetingResponse = "threw"
        THEN finish(got, FALSE,
                    <<"Failed to book meeting", "API request failed", "connection refused">>,
                    <<>>)
        ELSE IF hasError(meetingResponse)
        THEN finish(got, FALSE, <<"Failed to create meeting room", "api error">>, <<>>)
        ELSE [got EXCEPT !.pc = "event"]

\* bookMeeting once createCalendarEvent has answered or thrown
afterEventNotAwaited(rec, eventUid) ==
    finish([rec EXCEPT !.eventUid = eventUid], TRUE, <<>>, <<>>)

afterEvent(rec, eventUid) ==
    LET got == [rec EXCEPT !.eventUid = eventUid]
    IN  IF eventUid = "threw"
        THEN finish(got, FALSE,
                    <<"Failed to book meeting", "Failed to create calendar event",
                      "connection refused">>, <<>>)
        ELSE finish(got, TRUE, <<>>, <<>>)

BookStarts ==
    { [ok |-> TRUE, t |-> Monday + 8 * HourMinutes],
      [ok |-> TRUE, t |-> Monday + 8 * HourMinutes + 1],
      [ok |-> TRUE, t |-> Monday + 8 * HourMinutes + StepMinutes],
      [ok |-> TRUE, t |-> Monday + 9 * HourMinutes],
      [ok |-> TRUE, t |-> Monday + 22 * HourMinutes],
      [ok |-> TRUE, t |-> Monday + 23 * HourMinutes],
      [ok |-> TRUE, t |-> Monday + 23 * HourMinutes + StepMinutes],
      [ok |-> TRUE, t |-> Sunday + 9 * HourMinutes],
      undefinedDate }

Durations == {30, 60, 90, 120}

RouteDates == {Sunday, Monday, Tuesday}

Causes == {"connection refused", "No calendar found"}

----------------------------------------------------------------------------
(* Direct calls of the busy-interval projector *)

ProjLengths == {30, 60}

ProjDates == {Monday, Monday + 9 * HourMinutes}

eventObject(markers, form, s, e) ==
    [data |-> TRUE, markers |-> markers, dtstart |-> token(form, s), dtend |-> token(form, e)]

\* calendar objects around Monday: inside the day, across its two midnights,
\* around it, after it, in each token form, without markers, without an end,
\* without data
ProjObjects ==
    { eventObject(TRUE, "utc", Monday + 9 * HourMinutes, Monday + 10 * HourMinutes),
      eventObject(TRUE, "utc", Sunday + 23 * HourMinutes, Monday + 1 * HourMinutes),
      eventObject(TRUE, "utc", Sunday + 12 * HourMinutes, Tuesday + 12 * HourMinutes),
      eventObject(TRUE, "utc", Tuesday + 8 * HourMinutes, Tuesday + 9 * HourMinutes),
      eventObject(TRUE, "utc", Sunday + 23 * HourMinutes, Monday),
      eventObject(TRUE, "utc", Tuesday, Tuesday + 1 * HourMinutes),
      eventObject(TRUE, "local", Monday + 23 * HourMinutes, Tuesday + 1 * HourMinutes),
      eventObject(TRUE, "iso", Monday + 10 * HourMinutes, Monday + 11 * HourMinutes),
      eventObject(TRUE, "bad", 0, 0),
      eventObject(FALSE, "utc", Monday + 9 * HourMinutes, Monday + 10 * HourMinutes),
      [data |-> TRUE, markers |-> TRUE,
       dtstart |-> token("utc", Monday + 9 * HourMinutes), dtend |-> token("none", 0)],
      [data |-> FALSE, markers |-> FALSE,
       dtstart |-> token("none", 0), dtend |-> token("none", 0)] }

noEventData == [start |-> undefinedDate, end |-> undefinedDate]

\* nothing offered yet
noOffer == [slots |-> <<>>, writes |-> 0]

\* GET /calendar/slots/:date answers with the slots of getAvailableSlotsForDay
offeredAfter(rec) ==
    IF rec.kind = "slots" /\ rec.pc = "done" /\ rec.result.success
    THEN [slots |-> rec.result.slots, writes |-> Len(booked)]
    ELSE offered

noArgs == [date |-> 0, ranges |-> <<>>, busy |-> <<>>, len |-> 0]

genIdle == [date |-> 0, ranges |-> <<>>, busy |-> <<>>, len |-> 0,
            out |-> <<>>, groups |-> <<>>, done |-> FALSE, started |-> FALSE,
            after |-> noArgs, again |-> <<>>, doneAgain |-> FALSE]

projIdle == [date |-> 0, events |-> <<>>, eventData |-> <<>>, out |-> <<>>,
             done |-> FALSE, started |-> FALSE,
             len |-> 0, slots |-> <<>>, generated |-> FALSE]

ProjInit ==
    /\ booked = <<>>
    /\ offered = noOffer
    /\ tz \in TZOffsets
    /\ config \in Configs
    /\ calendar = <<>>
    /\ req = [r \in Requests |-> reqIdle]
    /\ nCalls = 0
    /\ gen = genIdle
    /\ \E d \in ProjDates : proj = [projIdle EXCEPT !.date = d, !.started = TRUE]

ProjAddEvent ==
    /\ ~proj.done
    /\ Len(proj.events) < MaxEvents
    /\ \E o \in ProjObjects : proj' = [proj EXCEPT !.events = Append(@, o)]
    /\ UNCHANGED <<tz, config, calendar, req, nCalls, gen, booked, offered>>

\* the call; eventData keeps what parseICS returned for each object with data
ProjCall ==
    /\ ~proj.done
    /\ proj' = [proj EXCEPT
                   !.done = TRUE,
                   !.eventData = [i \in 1..Len(proj.events) |->
                                     IF proj.events[i].data
                                     THEN parseICS(proj.events[i])
                                     ELSE noEventData],
                   !.out = parseEventsToTimeRanges(proj.events, proj.date)]
    /\ UNCHANGED <<tz, config, calendar, req, nCalls, gen, booked, offered>>

\* getAvailableSlotsForDay: the slots generated against the projected events
ProjGenerate ==
    /\ proj.done /\ ~proj.generated
    /\ \E slotLength \in ProjLengths :
          proj' = [proj EXCEPT
                      !.generated = TRUE,
                      !.len = slotLength,
                      !.slots = IF noRanges(proj.date)
                                THEN <<>>
                                ELSE generateAvailableSlots(proj.date,
                                                            availableRangesOf(proj.date),
                                                            proj.out, slotLength)]
    /\ UNCHANGED <<tz, config, calendar, req, nCalls, gen, booked, offered>>

ProjNext == ProjAddEvent \/ ProjCall \/ ProjGenerate

ProjSpec == ProjInit /\ [][ProjNext]_vars

----------------------------------------------------------------------------
(* Direct calls of the generator *)

GenDates == {Monday, Monday + 9 * HourMinutes, Tuesday}

GenRangeLists ==
    { <<>>,
      <<[start |-> 8, end |-> 12]>>,
      <<[start |-> 8, end |-> 10], [start |-> 14, end |-> 16]>>,
      <<[start |-> 22, end |-> 24]>>,
      <<[start |-> 9, end |-> 11], [start |-> 8, end |-> 10]>>,
      <<[start |-> 10, end |-> 10]>>,
      <<[start |-> 12, end |-> 8]>> }

GenLengths == {15, 30, 45, 60, 90}

\* busy intervals as offsets from the local midnight of the target day;
\* zero-length and reversed intervals included
GenBusyOffsets ==
    { <<540, 600>>, <<600, 660>>, <<540, 540>>, <<600, 600>>, <<615, 645>>,
      <<480, 720>>, <<660, 600>>, <<0 - 60, 1500>>, <<1380, 1440>>, <<510, 525>> }

GenInit ==
    /\ booked = <<>>
    /\ offered = noOffer
    /\ tz \in TZOffsets
    /\ config = envConfig(<<>>, <<>>, <<>>)
    /\ calendar = <<>>
    /\ req = [r \in Requests |-> reqIdle]
    /\ nCalls = 0
    /\ proj = projIdle
    /\ \E d \in GenDates, rs \in GenRangeLists, l \in GenLengths :
          gen = [genIdle EXCEPT !.date = d, !.ranges = rs, !.len = l, !.started = TRUE]

GenAddBusy ==
    /\ ~gen.done
    /\ Len(gen.busy) < MaxBusy
    /\ \E o \in GenBusyOffsets :
          gen' = [gen EXCEPT !.busy =
                    Append(@, [start |-> setHours(gen.date, 0) + o[1],
                               end |-> setHours(gen.date, 0) + o[2]])]
    /\ UNCHANGED <<tz, config, calendar, req, nCalls, proj, booked, offered>>

\* the call; groups keeps what each pass of the for loop appended
GenCall ==
    /\ ~gen.done
    /\ gen' = [gen EXCEPT !.done = TRUE,
                          !.out = generateAvailableSlots(gen.date, gen.ranges,
                                                         gen.busy, gen.len),
                          !.groups = [i \in 1..Len(gen.ranges) |->
                                         rangeSlots(gen.date, gen.ranges[i],
                                                    gen.busy, gen.len)],
                          !.after = argsAfterCall(gen.date, gen.ranges,
                                                  gen.busy, gen.len)]
    /\ UNCHANGED <<tz, config, calendar, req, nCalls, proj, booked, offered>>

\* a second call with the same argument objects, as the first call left them
GenCallAgain ==
    /\ gen.done /\ ~gen.doneAgain
    /\ gen' = [gen EXCEPT !.doneAgain = TRUE,
                          !.again = generateAvailableSlots(gen.after.date, gen.after.ranges,
                                                           gen.after.busy, gen.after.len)]
    /\ UNCHANGED <<tz, config, calendar, req, nCalls, proj, booked, offered>>

GenNext == GenAddBusy \/ GenCall \/ GenCallAgain

GenSpec == GenInit /\ [][GenNext]_vars

----------------------------------------------------------------------------
(* The service: requests handled one after the other *)

Init ==
    /\ booked = <<>>
    /\ offered = noOffer
    /\ tz \in TZOffsets
    /\ config \in Configs
    /\ calendar \in InitCalendars
    /\ req = [r \in Requests |-> reqIdle]
    /\ nCalls = 0
    /\ gen = genIdle
    /\ proj = projIdle

\* POST booking arrives: bookMeeting runs up to its first await on the network
BookMeeting(r) ==
    /\ req[r].pc \in {"idle", "done"}
    /\ nCalls < MaxCalls
    /\ \E start \in BookStarts, duration \in Durations :
          req' = [req EXCEPT ![r] = bookMeeting(start, duration)]
    /\ nCalls' = nCalls + 1
    /\ UNCHANGED <<tz, config, calendar, gen, proj, booked, offered>>

\* GET slots arrives
GetSlots(r) ==
    /\ req[r].pc \in {"idle", "done"}
    /\ nCalls < MaxCalls
    /\ \E date \in RouteDates, slotLength \in Durations :
          req' = [req EXCEPT ![r] = slotsRoute(date, slotLength)]
    /\ nCalls' = nCalls + 1
    /\ offered' = offeredAfter(req'[r])
    /\ UNCHANGED <<tz, config, calendar, gen, proj, booked>>

\* fetchCalendarEventsForDay: createDAVClient and fetchCalendars
CreateDAVClient(r) ==
    /\ req[r].pc = "connect"
    /\ \/ req' = [req EXCEPT ![r] = [called(@, "createDAVClient") EXCEPT !.pc = "timeRange"]]
       \/ \E cause \in Causes :
             req' = [req EXCEPT ![r] = fetchThrow(called(@, "createDAVClient"), cause)]
    /\ UNCHANGED <<tz, config, calendar, nCalls, gen, proj, booked, offered>>

\* a time-range query whose empty answer is returned as it is
TimeRangeQueryNoFallback(r) ==
    /\ req[r].pc = "timeRange"
    /\ \/ LET calendarObjects == timeRangeObjects(calendar, req[r].date, 1)
              answered == [called(req[r], "timeRangeQuery") EXCEPT
                              !.calendarObjects = calendarObjects]
          IN  req' = [req EXCEPT ![r] = slotsFromEvents(answered, calendarObjects)]
       \/ req' = [req EXCEPT ![r] = [called(@, "timeRangeQuery") EXCEPT
                                        !.pc = "fullQuery", !.timeRangeError = TRUE]]
    /\ offered' = offeredAfter(req'[r])
    /\ UNCHANGED <<tz, config, calendar, nCalls, gen, proj, booked>>

\* fetchCalendarEventsForDay: the query with a time range
TimeRangeQuery(r) ==
    /\ req[r].pc = "timeRange"
    /\ \/ LET calendarObjects == timeRangeObjects(calendar, req[r].date, 1)
              answered == [called(req[r], "timeRangeQuery") EXCEPT
                              !.calendarObjects = calendarObjects]
          IN  req' = [req EXCEPT ![r] =
                        IF Len(calendarObjects) > 0
                        THEN slotsFromEvents(answered, calendarObjects)
                        ELSE [answered EXCEPT !.pc = "fullQuery"]]
       \/ req' = [req EXCEPT ![r] = [called(@, "timeRangeQuery") EXCEPT
                                        !.pc = "fullQuery", !.timeRangeError = TRUE]]
    /\ offered' = offeredAfter(req'[r])
    /\ UNCHANGED <<tz, config, calendar, nCalls, gen, proj, booked>>

\* fetchCalendarEventsForDay: the fallback query for all objects
FullQuery(r) ==
    /\ req[r].pc = "fullQuery"
    /\ \/ req' = [req EXCEPT ![r] = slotsFromEvents(called(@, "fullQuery"), calendar)]
       \/ req' = [req EXCEPT ![r] = fetchThrow(called(@, "fullQuery"), "connection refused")]
    /\ offered' = offeredAfter(req'[r])
    /\ UNCHANGED <<tz, config, calendar, nCalls, gen, proj, booked>>

\* createMeetingRoom behind a lock held from the room creation to the
\* calendar write
CreateMeetingRoomLocked(r) ==
    /\ req[r].pc = "room"
    /\ \A o \in Requests \ {r} : req[o].pc \notin {"room", "event"}
    /\ LET rec == [called(req[r], "createMeetingRoom") EXCEPT
                      !.roomArgs = Append(@, [startAt |-> toISOString(req[r].startTime),
                                              endAt |-> toISOString(req[r].endTime)])]
       IN  \E meetingResponse \in {"ok", "error", "threw"} :
               req' = [req EXCEPT ![r] = afterRoom(rec, meetingResponse)]
    /\ UNCHANGED <<tz, config, calendar, nCalls, gen, proj, booked, offered>>

\* bookMeeting: createMeetingRoom answers with a room, with an error object,
\* or apiRequest throws
CreateMeetingRoom(r) ==
    /\ req[r].pc = "room"
    /\ LET rec == [called(req[r], "createMeetingRoom") EXCEPT
                      !.roomArgs = Append(@, [startAt |-> toISOString(req[r].startTime),
                                              endAt |-> toISOString(req[r].endTime)])]
       IN  \E meetingResponse \in {"ok", "error", "threw"} :
               req' = [req EXCEPT ![r] = afterRoom(rec, meetingResponse)]
    /\ UNCHANGED <<tz, config, calendar, nCalls, gen, proj, booked, offered>>

\* bookMeeting: createCalendarEvent writes the event or throws
CreateCalendarEvent(r) ==
    /\ req[r].pc = "event"
    /\ LET meetingParams == [startTime |-> toISOString(req[r].startTime),
                             endTime |-> toISOString(req[r].endTime)]
           rec == [called(req[r], "createCalendarEvent") EXCEPT
                      !.eventArgs = Append(@, meetingParams)]
       IN  \/ /\ req' = [req EXCEPT ![r] = afterEvent(rec, "ok")]
              /\ calendar' = Append(calendar, generateICSContent(meetingParams))
              /\ booked' = Append(booked, [start |-> req[r].start.t,
                                           end |-> req[r].start.t + req[r].duration])
           \/ /\ req' = [req EXCEPT ![r] = afterEvent(rec, "threw")]
              /\ UNCHANGED <<calendar, booked, offered>>
    /\ UNCHANGED <<tz, config, nCalls, gen, proj, offered>>

Next ==
    \E r \in Sequential :
        \/ BookMeeting(r)
        \/ GetSlots(r)
        \/ CreateDAVClient(r)
        \/ TimeRangeQuery(r)
        \/ FullQuery(r)
        \/ CreateMeetingRoom(r)
        \/ CreateCalendarEvent(r)

Spec == Init /\ [][Next]_vars

----------------------------------------------------------------------------
(* The service: two booking requests in flight at the same time.  Each     *)
(* request is one asynchronous task; the tasks interleave at their awaits  *)
(* on the network.                                                         *)

ConcStarts ==
    { [ok |-> TRUE, t |-> Monday + 8 * HourMinutes],
      [ok |-> TRUE, t |-> Monday + 8 * HourMinutes + StepMinutes] }

ConcDurations == {HourMinutes}

ConcInit ==
    /\ booked = <<>>
    /\ offered = noOffer
    /\ tz \in TZOffsets
    /\ config = envConfig(<<<<8, 12>>>>, <<>>, <<30, 60>>)
    /\ calendar \in InitCalendars
    /\ req = [r \in Requests |-> reqIdle]
    /\ nCalls = 0
    /\ gen = genIdle
    /\ proj = projIdle

\* POST booking arrives for request r, whatever the other request is doing
ConcBookMeeting(r) ==
    /\ req[r].pc = "idle"
    /\ \E start \in ConcStarts, duration \in ConcDurations :
          req' = [req EXCEPT ![r] = bookMeeting(start, duration)]
    /\ nCalls' = nCalls + 1
    /\ UNCHANGED <<tz, config, calendar, gen, proj, booked, offered>>

ConcNext ==
    \E r \in Requests :
        \/ ConcBookMeeting(r)
        \/ CreateDAVClient(r)
        \/ TimeRangeQuery(r)
        \/ FullQuery(r)
        \/ CreateMeetingRoom(r)
        \/ CreateCalendarEvent(r)

ConcSpec == ConcInit /\ [][ConcNext]_vars

----------------------------------------------------------------------------
(* Properties of booking and availability, checked under Spec *)

Count(seq, op) == Cardinality({i \in 1..Len(seq) : seq[i] = op})

IsBookingCall(op) == op \in {"createMeetingRoom", "createCalendarEvent"}

IsFetchCall(op) == op \in {"createDAVClient", "timeRangeQuery", "fullQuery"}

\* request r is a booking whose start parsed
Booking(r) == req[r].kind = "book" /\ req[r].start.ok

\* the availability computed for the booking holds the exact requested slot
SlotPresent(r) ==
    /\ req[r].checked
    /\ \E i \in 1..Len(req[r].availableSlots) :
          LET slot == req[r].availableSlots[i]
          IN  /\ dateFromISO(slot.start) = req[r].start.t
              /\ dateFromISO(slot.end) - dateFromISO(slot.start) = req[r].duration

\* the start and the end instant computed by bookMeeting lie on the same UTC
\* calendar date
SameUTCDate(r) ==
    req[r].start.t \div DayMinutes = req[r].endTime \div DayMinutes

\* what C2 promises of booking r
BookedOnce(r) ==
    /\ (req[r].pc = "done" => req[r].meetingResponse # "none")
    /\ (req[r].meetingResponse = "ok" =>
            /\ req[r].pc \in {"event", "done"}
            /\ (req[r].pc = "done" => req[r].eventUid # "none"))
    /\ ((req[r].meetingResponse = "ok" /\ req[r].eventUid = "ok") =>
            /\ req[r].pc = "done"
            /\ req[r].result.success
            /\ SelectSeq(req[r].hist, IsBookingCall)
                   = <<"createMeetingRoom", "createCalendarEvent">>)

\* C2 as stated: a booking whose exact slot is in the computed availability
\* reaches both collaborators and, when both succeed, returns success after
\* exactly one room creation followed by exactly one event creation.
C2_AvailableSlotBooked ==
    \A r \in Requests : (Booking(r) /\ SlotPresent(r)) => BookedOnce(r)

\* C2 amended: the same, for bookings whose start and computed end lie on the
\* same UTC calendar date (the cross-day check passes).
C2_AvailableSameDaySlotBooked ==
    \A r \in Requests : (Booking(r) /\ SlotPresent(r) /\ SameUTCDate(r)) => BookedOnce(r)

\* a successful booking of a slot that was on offer
C2_Witness ==
    \E r \in Requests :
        /\ Booking(r) /\ SlotPresent(r) /\ SameUTCDate(r)
        /\ req[r].pc = "done" /\ req[r].result.success
        /\ req[r].hist[Len(req[r].hist)] = "createCalendarEvent"

\* C3: when the computed availability holds no slot with the requested start
\* and length, the booking fails as unavailable and neither the meeting-room
\* API nor the calendar writer is called.
C3_ExactMatchOnly ==
    \A r \in Requests :
        (Booking(r) /\ req[r].checked /\ ~SlotPresent(r)) =>
            /\ req[r].pc = "done"
            /\ ~req[r].result.success
            /\ req[r].result.error = <<"The requested time slot is no longer available">>
            /\ SelectSeq(req[r].hist, IsBookingCall) = <<>>
            /\ req[r].roomArgs = <<>> /\ req[r].eventArgs = <<>>

\* a start one minute past a slot on offer is refused
C3_Witness ==
    \E r \in Requests :
        /\ Booking(r) /\ req[r].checked /\ ~SlotPresent(r)
        /\ \E i \in 1..Len(req[r].availableSlots) :
              dateFromISO(req[r].availableSlots[i].start) + 1 = req[r].start.t
        /\ req[r].pc = "done"

\* C4: when room creation answers with an error or throws, the booking
\* returns a failure and the calendar event creation is not called.
C4_RoomFailureStopsBooking ==
    \A r \in Requests :
        req[r].meetingResponse \in {"error", "threw"} =>
            /\ req[r].pc = "done"
            /\ ~req[r].result.success
            /\ req[r].result.error # <<>>
            /\ Count(req[r].hist, "createCalendarEvent") = 0
            /\ req[r].eventArgs = <<>>

C4_Witness ==
    \E r \in Requests :
        /\ req[r].meetingResponse = "error"
        /\ req[r].pc = "done"
        /\ Count(req[r].hist, "createMeetingRoom") = 1

\* C5: a finished booking reports success only when the room creation and the
\* event creation both completed without error; every other outcome is a
\* failure with an error message, also when the calendar write fails after the
\* room was created.
C5_SuccessOnlyIfBoth ==
    \A r \in Requests :
        (req[r].kind = "book" /\ req[r].pc = "done") =>
            /\ req[r].result.success =>
                  /\ req[r].meetingResponse = "ok" /\ req[r].eventUid = "ok"
                  /\ Count(req[r].hist, "createMeetingRoom") = 1
                  /\ Count(req[r].hist, "createCalendarEvent") = 1
            /\ ~req[r].result.success => req[r].result.error # <<>>
            /\ req[r].eventUid = "threw" =>
                  /\ ~req[r].result.success
                  /\ Count(req[r].hist, "createMeetingRoom") = 1

\* the calendar write failed after the room was created
C5_Witness ==
    \E r \in Requests :
        /\ req[r].pc = "done" /\ req[r].eventUid = "threw"
        /\ req[r].meetingResponse = "ok"
        /\ ~req[r].result.success

\* request r has called getAvailableSlotsForDay
AskedAvailability(r) ==
    req[r].pc # "idle" /\ (req[r].kind = "slots" \/ Booking(r))

\* the configured allowed slot lengths
AllowedLengths ==
    IF config["SLOTS_LENGTH"] = <<>>
    THEN {HourMinutes}
    ELSE {config["SLOTS_LENGTH"][i] : i \in 1..Len(config["SLOTS_LENGTH"])}

\* the raw configured ranges of the local weekday of an instant
WeekdayRanges(date) == config[dayMap[(((date + tz) \div DayMinutes) % 7) + 1]]

\* C6: a slot length outside the allowed lengths makes getAvailableSlotsForDay
\* fail with the invalid-slot-length error on every date, before any remote
\* calendar call.
C6_InvalidSlotLength ==
    \A r \in Requests :
        (AskedAvailability(r) /\ req[r].slotLength \notin AllowedLengths) =>
            /\ req[r].pc = "done"
            /\ ~req[r].result.success
            /\ req[r].result.error[Len(req[r].result.error)] = "Invalid slot length"
            /\ req[r].hist = <<>>

\* an invalid length on a weekday without configured ranges
C6_Witness ==
    \E r \in Requests :
        /\ req[r].kind = "slots" /\ req[r].pc = "done"
        /\ req[r].slotLength \notin AllowedLengths
        /\ WeekdayRanges(req[r].date) = <<>>
        /\ ~req[r].result.success

\* C7: on a weekday without configured ranges, an allowed slot length gets the
\* empty sequence and no remote calendar call is made.
C7_NoRangesNoFetch ==
    \A r \in Requests :
        (/\ AskedAvailability(r)
         /\ req[r].slotLength \in AllowedLengths
         /\ WeekdayRanges(req[r].date) = <<>>) =>
            /\ req[r].pc = "done"
            /\ req[r].hist = <<>>
            /\ req[r].kind = "slots" => (req[r].result.success /\ req[r].result.slots = <<>>)
            /\ req[r].kind = "book" => (req[r].checked /\ req[r].availableSlots = <<>>)

C7_Witness ==
    \E r \in Requests :
        /\ req[r].kind = "slots" /\ req[r].pc = "done"
        /\ req[r].slotLength \in AllowedLengths
        /\ WeekdayRanges(req[r].date) = <<>>
        /\ req[r].result.success

\* C10: the end handed to the meeting-room API and to the calendar event
\* creation is start + duration, and both collaborators get the same pair.
C10_EndIsStartPlusDuration ==
    \A r \in Requests :
        /\ \A i \in 1..Len(req[r].roomArgs) :
              /\ dateFromISO(req[r].roomArgs[i].startAt) = req[r].start.t
              /\ dateFromISO(req[r].roomArgs[i].endAt) = req[r].start.t + req[r].duration
        /\ \A i \in 1..Len(req[r].eventArgs) :
              /\ dateFromISO(req[r].eventArgs[i].startTime) = req[r].start.t
              /\ dateFromISO(req[r].eventArgs[i].endTime) = req[r].start.t + req[r].duration
              /\ req[r].eventArgs[i].startTime = req[r].roomArgs[1].startAt
              /\ req[r].eventArgs[i].endTime = req[r].roomArgs[1].endAt

\* the requested start and start + duration lie on different UTC calendar dates
CrossesMidnight(r) ==
    req[r].start.t \div DayMinutes # (req[r].start.t + req[r].duration) \div DayMinutes

\* C11: a booking whose start and start + duration fall on different calendar
\* days never reaches the room creation or the calendar writer, and when its
\* slot is on offer it is refused with the cross-day error.
C11_CrossDayRejected ==
    \A r \in Requests :
        (Booking(r) /\ CrossesMidnight(r)) =>
            /\ SelectSeq(req[r].hist, IsBookingCall) = <<>>
            /\ req[r].roomArgs = <<>> /\ req[r].eventArgs = <<>>
            /\ (req[r].pc = "done" /\ SlotPresent(r)) =>
                  /\ ~req[r].result.success
                  /\ req[r].result.error = <<"The start date and end date are not the same">>

\* C15: a booking whose start does not parse fails with the invalid-start
\* error before any availability computation: no remote calendar call, no room
\* creation, no calendar-event creation.
C15_InvalidStartFirst ==
    \A r \in Requests :
        (req[r].kind = "book" /\ ~req[r].start.ok) =>
            /\ req[r].pc = "done"
            /\ ~req[r].result.success
            /\ req[r].result.error = <<"Invalid start time">>
            /\ ~req[r].checked
            /\ req[r].hist = <<>>
            /\ req[r].roomArgs = <<>> /\ req[r].eventArgs = <<>>

\* a booking with an unparseable start, on a configuration that has ranges on
\* Monday and an allowed duration
C15_Witness ==
    \E r \in Requests :
        /\ req[r].kind = "book" /\ ~req[r].start.ok
        /\ req[r].duration \in AllowedLengths
        /\ req[r].pc = "done"

\* getAvailableSlotsForDay failed for request r with a wrapped error that
\* carries the cause; no slot list was returned, no room or event created
WrappedFailure(r, cause) ==
    /\ req[r].pc = "done"
    /\ ~req[r].result.success
    /\ includes(req[r].result.error, "Failed to get available slots")
    /\ includes(req[r].result.error, cause)
    /\ req[r].result.slots = <<>>
    /\ ~req[r].checked
    /\ SelectSeq(req[r].hist, IsBookingCall) = <<>>

\* C16 as stated: any failure while fetching the calendar objects, that of the
\* time-range query included, makes getAvailableSlotsForDay fail with a wrapped
\* error and never return a slot list.
C16_AnyFetchFailureFails ==
    \A r \in Requests :
        /\ req[r].fetchError # "" => WrappedFailure(r, req[r].fetchError)
        /\ req[r].timeRangeError =>
              (~req[r].checked /\ ~(req[r].kind = "slots" /\ req[r].result.success))

\* C16 amended: when fetchCalendarEventsForDay fails (connecting, finding the
\* calendar, or the full query), getAvailableSlotsForDay fails with a wrapped
\* error that carries the cause, returns no slot list, and a booking ends
\* with success=false and neither room nor event.
C16_FetchFailureWrapped ==
    \A r \in Requests :
        req[r].fetchError # "" => WrappedFailure(r, req[r].fetchError)

\* a booking whose time-range query and fallback query both failed
C16_Witness ==
    \E r \in Requests :
        /\ req[r].kind = "book"
        /\ req[r].timeRangeError
        /\ req[r].fetchError = "connection refused"
        /\ req[r].hist = <<"createDAVClient", "timeRangeQuery", "fullQuery">>
        /\ req[r].pc = "done"

\* the half-open windows [a.start, a.end) and [b.start, b.end) intersect
Intersects(a, b) == a.start < b.end /\ b.start < a.end

\* the window request r asks for
WindowOf(r) == [start |-> req[r].start.t, end |-> req[r].start.t + req[r].duration]

\* C24: bookings handled one after the other never double-book: the windows
\* of the successful bookings are pairwise disjoint, and a booking whose
\* window intersects that of an earlier successful booking fails as
\* unavailable once its availability is computed.
C24_NoSequentialDoubleBooking ==
    /\ \A i, j \in 1..Len(booked) : i < j => ~Intersects(booked[i], booked[j])
    /\ \A r \in Requests :
          (/\ Booking(r) /\ req[r].checked /\ req[r].eventUid # "ok"
           /\ \E i \in 1..Len(booked) : Intersects(booked[i], WindowOf(r))) =>
              /\ req[r].pc = "done"
              /\ req[r].result.error = <<"The requested time slot is no longer available">>
              /\ SelectSeq(req[r].hist, IsBookingCall) = <<>>

\* the slot request r asks for was in the last answer of the slots route,
\* and no calendar write happened since
OfferedTo(r) ==
    /\ Len(booked) = offered.writes
    /\ \E i \in 1..Len(offered.slots) :
          /\ dateFromISO(offered.slots[i].start) = req[r].start.t
          /\ dateFromISO(offered.slots[i].end) - req[r].start.t = req[r].duration

\* bookMeeting has passed both checks and is at, or past, createMeetingRoom
ReachesRoom(r) ==
    req[r].pc = "room" \/ Count(req[r].hist, "createMeetingRoom") > 0

C25_WitnessMidnight ==
    \E r \in Requests :
        /\ Booking(r) /\ req[r].checked /\ OfferedTo(r)
        /\ ~SameUTCDate(r) /\ req[r].pc = "done"

\* request r is a call of getAvailableSlotsForDay from the slots route
SlotsRequest(r) == req[r].kind = "slots"

\* what the calendar can answer to a fetch for that day: the objects in the
\* time range, or all of them
FetchedNow(r) ==
    req[r].events \in {timeRangeObjects(calendar, req[r].date, 1), calendar}

\* the answer of a finished slots request is determined by the configuration,
\* its arguments and the objects it fetched
AnswerFromOwnFetch(r) ==
    IF ~validSlotLength(req[r].slotLength)
    THEN ~req[r].result.success /\ req[r].hist = <<>>
    ELSE IF noRanges(req[r].date)
    THEN req[r].result.success /\ req[r].result.slots = <<>> /\ req[r].hist = <<>>
    ELSE IF req[r].fetched
    THEN /\ req[r].result.success
         /\ FetchedNow(r)
         /\ req[r].result.slots =
                generateAvailableSlots(req[r].date, availableRangesOf(req[r].date),
                                       parseEventsToTimeRanges(req[r].events, req[r].date),
                                       req[r].slotLength)
    ELSE ~req[r].result.success

C28_ReadOnlyState ==
    \A r \in Requests :
        SlotsRequest(r) =>
            /\ SelectSeq(req[r].hist, IsBookingCall) = <<>>
            /\ req[r].roomArgs = <<>> /\ req[r].eventArgs = <<>>
            /\ req[r].pc = "done" => AnswerFromOwnFetch(r)

C28_ReadOnlyStep ==
    \A r \in Requests :
        (req'[r].kind = "slots" /\ req'[r] # req[r]) =>
            (calendar' = calendar /\ booked' = booked)

\* C28: getAvailableSlotsForDay is read-only and request-scoped: a slots
\* request calls neither createMeetingRoom nor createCalendarEvent, none of
\* its steps changes the calendar, and its answer is determined by the
\* configuration, its arguments and the objects fetched in that request.
C28_ReadOnlyRequestScoped ==
    []C28_ReadOnlyState /\ [][C28_ReadOnlyStep]_vars

\* a slots request answered with slots after an earlier booking wrote its
\* event, which this request fetched
C28_Witness ==
    \E r \in Requests :
        /\ SlotsRequest(r) /\ req[r].pc = "done" /\ req[r].result.success
        /\ Len(req[r].result.slots) > 0
        /\ Len(booked) > 0
        /\ Len(req[r].events) > 0 /\ req[r].events[Len(req[r].events)] = calendar[Len(calendar)]

CrossDayAnswer(r) ==
    /\ req[r].pc = "done"
    /\ req[r].result.error = <<"The start date and end date are not the same">>

\* C29: bookMeeting checks availability before the day: the cross-day error
\* is only given to a request whose exact slot was in the computed
\* availability, and a request that is both unavailable and cross-day gets
\* the slot-unavailable error.
C29_AvailabilityBeforeCrossDay ==
    \A r \in Requests :
        /\ (Booking(r) /\ CrossDayAnswer(r)) => SlotPresent(r)
        /\ (Booking(r) /\ req[r].checked /\ ~SlotPresent(r)
              /\ (~SameUTCDate(r) \/ CrossesMidnight(r))) =>
                 /\ req[r].pc = "done"
                 /\ req[r].result.error =
                        <<"The requested time slot is no longer available">>

\* a request that is both unavailable and cross-day, answered
C29_Witness ==
    \E r \in Requests :
        /\ Booking(r) /\ req[r].checked /\ ~SlotPresent(r)
        /\ ~SameUTCDate(r) /\ CrossesMidnight(r)
        /\ req[r].pc = "done"

\* a request answered with the cross-day error
C29_WitnessCrossDay ==
    \E r \in Requests : Booking(r) /\ CrossDayAnswer(r) /\ SlotPresent(r)

IsPrefix(a, b) == Len(a) <= Len(b) /\ a = SubSeq(b, 1, Len(a))

\* the remote queries of request r, in order
FetchCalls(r) == SelectSeq(req[r].hist, IsFetchCall)

\* the calendar as it was before request r wrote its own event
CalendarBeforeWrite(r) ==
    SubSeq(calendar, 1, Len(calendar) - (IF req[r].eventUid = "ok" THEN 1 ELSE 0))

\* C23: the time-range query comes first and a non-empty answer is returned
\* with no further query; when it fails or answers nothing the full query runs
\* exactly once and its answer is returned; a failure of the full query or of
\* the client and calendar setup ends the fetch with an error, with no retry.
C23_ScopedThenFullOnce ==
    \A r \in Requests :
        /\ IsPrefix(FetchCalls(r), <<"createDAVClient", "timeRangeQuery", "fullQuery">>)
        /\ (/\ Count(req[r].hist, "timeRangeQuery") = 1
            /\ Count(req[r].hist, "fullQuery") = 0
            /\ req[r].pc # "fullQuery") =>
              /\ ~req[r].timeRangeError /\ req[r].calendarObjects # <<>>
              /\ req[r].fetched /\ req[r].events = req[r].calendarObjects
        /\ (req[r].timeRangeError \/ (Count(req[r].hist, "timeRangeQuery") = 1
                                       /\ req[r].calendarObjects = <<>>)) =>
              (req[r].pc = "fullQuery" \/ Count(req[r].hist, "fullQuery") = 1)
        /\ Count(req[r].hist, "fullQuery") = 1 =>
              /\ req[r].timeRangeError \/ req[r].calendarObjects = <<>>
              /\ req[r].fetched \/ req[r].fetchError # ""
              /\ req[r].fetched => req[r].events = CalendarBeforeWrite(r)
        /\ req[r].fetchError # "" =>
              /\ ~req[r].fetched
              /\ req[r].pc = "done" /\ ~req[r].result.success
              /\ req[r].hist[Len(req[r].hist)] \in {"createDAVClient", "fullQuery"}

\* the time-range query answered nothing and the full query returned the
\* objects of other days
C23_Witness ==
    \E r \in Requests :
        /\ req[r].fetched
        /\ ~req[r].timeRangeError /\ req[r].calendarObjects = <<>>
        /\ req[r].events # <<>>
        /\ FetchCalls(r) = <<"createDAVClient", "timeRangeQuery", "fullQuery">>

\* the step of the booking state machine a request stands at
StepOf(rec) ==
    CASE rec.pc = "idle" -> 0
      [] rec.pc \in {"connect", "timeRange", "fullQuery"} -> 2  \* CheckAvailability
      [] rec.pc = "room" -> 3                                   \* CreateRoom
      [] rec.pc = "event" -> 4                                  \* CreateCalendarEvent
      [] OTHER -> 5                                             \* Done or Error

\* the place of a collaborator call in the linear order
CallOrder(op) ==
    CASE op = "createDAVClient" -> 1
      [] op = "timeRangeQuery" -> 2
      [] op = "fullQuery" -> 3
      [] op = "createMeetingRoom" -> 4
      [] OTHER -> 5

\* the calls of booking r so far are in the linear order, none repeated, and
\* each step was entered only after the step before it succeeded
LinearSoFar(r) ==
    /\ \A i, j \in 1..Len(req[r].hist) :
          i < j => CallOrder(req[r].hist[i]) < CallOrder(req[r].hist[j])
    /\ Count(req[r].hist, "createDAVClient") > 0 => req[r].start.ok
    /\ (Count(req[r].hist, "createMeetingRoom") > 0 \/ req[r].pc = "room") =>
          (req[r].checked /\ SlotPresent(r))
    /\ (Count(req[r].hist, "createCalendarEvent") > 0 \/ req[r].pc = "event") =>
          (Count(req[r].hist, "createMeetingRoom") = 1 /\ req[r].meetingResponse = "ok")
    /\ (req[r].pc = "done" /\ req[r].result.success) =>
          (Count(req[r].hist, "createCalendarEvent") = 1 /\ req[r].eventUid = "ok")

\* a step of the same request: it moves forward, adds at most one call, and
\* never leaves the final state
ForwardStep(r) ==
    (nCalls' = nCalls /\ req[r].kind = "book") =>
        /\ StepOf(req'[r]) >= StepOf(req[r])
        /\ \/ req'[r].hist = req[r].hist
           \/ \E op \in {"createDAVClient", "timeRangeQuery", "fullQuery",
                          "createMeetingRoom", "createCalendarEvent"} :
                 req'[r].hist = Append(req[r].hist, op)
        /\ req[r].pc = "done" => req'[r] = req[r]
        /\ (req'[r].pc = "done" /\ ~req'[r].result.success) =>
              req'[r].result.error # <<>>

\* C14: a booking moves through ValidateStart, CheckAvailability, CreateRoom,
\* CreateCalendarEvent, Done in that order, with at most one availability
\* computation, one room creation and one event creation, and a failed step
\* ends the request in the error outcome with no later step.
C14_LinearNoRetry ==
    /\ [](\A r \in Requests : req[r].kind = "book" => LinearSoFar(r))
    /\ [][\A r \in Requests : ForwardStep(r)]_vars

\* a booking that went through every step, and the fallback query too
C14_Witness ==
    \E r \in Requests :
        /\ req[r].pc = "done" /\ req[r].result.success
        /\ req[r].hist = <<"createDAVClient", "timeRangeQuery", "fullQuery",
                           "createMeetingRoom", "createCalendarEvent">>

----------------------------------------------------------------------------
(* Properties of concurrent bookings, checked under ConcSpec *)

\* the requested windows of the two bookings intersect
WindowsOverlap(a, b) ==
    /\ req[a].start.t < req[b].start.t + req[b].duration
    /\ req[b].start.t < req[a].start.t + req[a].duration

\* C13: nothing serializes two bookings: whatever the other request is doing
\* (between its availability check and its calendar write included), a request
\* can arrive, start its availability computation, create its room and write
\* its event.
C13_NothingSerializes ==
    \A r \in Requests :
        /\ req[r].pc = "idle" => ENABLED ConcBookMeeting(r)
        /\ req[r].pc = "connect" => ENABLED CreateDAVClient(r)
        /\ req[r].pc = "room" => ENABLED CreateMeetingRoom(r)
        /\ req[r].pc = "event" => ENABLED CreateCalendarEvent(r)

\* two bookings of overlapping windows have both found their slot on offer
\* and both succeeded; the calendar holds both events
C13_Witness ==
    /\ Booking(1) /\ Booking(2)
    /\ WindowsOverlap(1, 2)
    /\ \A r \in Requests :
          /\ SlotPresent(r)
          /\ req[r].pc = "done" /\ req[r].result.success
          /\ \E i \in 1..Len(calendar) :
                calendar[i] = generateICSContent(req[r].eventArgs[1])

----------------------------------------------------------------------------
(* Properties of the slot generator, checked under GenSpec *)

\* the three-way overlap test as the specification words it
ThreeWay(s, e, b) ==
    \/ (b.start <= s /\ s < b.end)
    \/ (b.start < e /\ e <= b.end)
    \/ (s <= b.start /\ b.end <= e)

\* the grid candidates of range r of the direct call: their start instants
GridStarts(r) ==
    { setHours(gen.date, r.start) + k * StepMinutes : k \in 0..(2 * 24) }

InOut(cs, ce) ==
    \E i \in 1..Len(gen.out) :
        gen.out[i] = [start |-> toISOString(cs), end |-> toISOString(ce)]

\* C1: every returned slot is exactly one slot length long and intersects no
\* supplied busy interval under the three-way overlap test.
C1_SlotsExactAndFree ==
    gen.done =>
        \A i \in 1..Len(gen.out) :
            LET s == dateFromISO(gen.out[i].start)
                e == dateFromISO(gen.out[i].end)
            IN  /\ e - s = gen.len
                /\ \A j \in 1..Len(gen.busy) : ~ThreeWay(s, e, gen.busy[j])

\* a call with busy intervals that returned some slots and rejected others
C1_Witness ==
    /\ gen.done
    /\ Len(gen.busy) > 0
    /\ Len(gen.out) > 0
    /\ Len(gen.out) < Len(generateAvailableSlots(gen.date, gen.ranges, <<>>, gen.len))

\* the candidate [cs, cs + len] of range r abuts busy interval j and no other
\* busy interval blocks it
AbutsOnly(r, cs, j) ==
    LET ce == cs + gen.len
        b == gen.busy[j]
    IN  /\ ce <= setHours(gen.date, r.end)
        /\ (ce = b.start \/ cs = b.end)
        /\ \A k \in 1..Len(gen.busy) : k # j => ~ThreeWay(cs, ce, gen.busy[k])

\* C8 as stated: a candidate that abuts a busy interval with start <= end
\* (zero-length ones included) is returned when no other interval blocks it.
C8_AbutIncludedAnyInterval ==
    gen.done =>
        \A j \in 1..Len(gen.busy) : \A i \in 1..Len(gen.ranges) :
            \A cs \in GridStarts(gen.ranges[i]) :
                (gen.busy[j].start <= gen.busy[j].end /\ AbutsOnly(gen.ranges[i], cs, j))
                    => InOut(cs, cs + gen.len)

\* C8 amended: a candidate that abuts a busy interval with start < end is
\* returned when no other interval blocks it.
C8_AbutIncluded ==
    gen.done =>
        \A j \in 1..Len(gen.busy) : \A i \in 1..Len(gen.ranges) :
            \A cs \in GridStarts(gen.ranges[i]) :
                (gen.busy[j].start < gen.busy[j].end /\ AbutsOnly(gen.ranges[i], cs, j))
                    => InOut(cs, cs + gen.len)

\* a returned slot that ends at the start of a positive-length busy interval
\* and another that starts at its end
C8_Witness ==
    /\ gen.done
    /\ \E j \in 1..Len(gen.busy) :
          /\ gen.busy[j].start < gen.busy[j].end
          /\ \E a, b \in 1..Len(gen.out) :
                /\ dateFromISO(gen.out[a].end) = gen.busy[j].start
                /\ dateFromISO(gen.out[b].start) = gen.busy[j].end

\* the scenario of C9: one range 8-12, one-hour slots, one busy hour 09:00-10:00
C9_Scenario ==
    /\ gen.done
    /\ gen.ranges = <<[start |-> 8, end |-> 12]>>
    /\ gen.len = HourMinutes
    /\ gen.busy = <<[start |-> setHours(gen.date, 9), end |-> setHours(gen.date, 10)]>>

\* the one-hour slot that starts m minutes after local midnight of the target day
HourSlot(m) == [start |-> toISOString(setHours(gen.date, 0) + m),
                end |-> toISOString(setHours(gen.date, 0) + m + HourMinutes)]

\* C9 as stated: in that scenario the result is exactly 08:00-09:00,
\* 10:00-11:00, 11:00-12:00, in that order.
C9_EndToEndThreeSlots ==
    C9_Scenario => gen.out = <<HourSlot(480), HourSlot(600), HourSlot(660)>>

\* C9 amended: in that scenario the result is exactly 08:00-09:00, 10:00-11:00,
\* 10:30-11:30, 11:00-12:00, in that order (the half-hour grid also offers
\* 10:30-11:30, which is free).
C9_EndToEnd ==
    C9_Scenario =>
        gen.out = <<HourSlot(480), HourSlot(600), HourSlot(630), HourSlot(660)>>

C9_Witness == C9_Scenario /\ Len(gen.out) = 4

\* the half-open intervals [s, e) and [b.start, b.end) intersect
HalfOpen(s, e, b) == s < b.end /\ e > b.start

\* the candidates the generator tests: grid starts of a range whose slot
\* still ends inside the range
Candidates ==
    { cs \in UNION { GridStarts(gen.ranges[i]) : i \in 1..Len(gen.ranges) } :
        \E i \in 1..Len(gen.ranges) :
            /\ cs \in GridStarts(gen.ranges[i])
            /\ cs + gen.len <= setHours(gen.date, gen.ranges[i].end) }

ProperBusy == \A j \in 1..Len(gen.busy) : gen.busy[j].start < gen.busy[j].end

\* C26: with busy intervals of start < end, the three-way overlap test of
\* the generator decides as the half-open intersection test does: a tested
\* candidate is returned exactly when it intersects no busy interval, so the
\* two tests can differ only for a busy interval with start >= end.
C26_ThreeWayIsHalfOpen ==
    (gen.done /\ ProperBusy) =>
        \A cs \in Candidates :
            InOut(cs, cs + gen.len) <=>
                \A j \in 1..Len(gen.busy) : ~HalfOpen(cs, cs + gen.len, gen.busy[j])

\* a call with proper busy intervals that rejected a candidate which starts
\* before a busy interval and ends inside it, another that contains a busy
\* interval, and returned a third
C26_Witness ==
    /\ gen.done /\ ProperBusy /\ Len(gen.out) > 0
    /\ \E cs \in Candidates : \E j \in 1..Len(gen.busy) :
          /\ cs < gen.busy[j].start /\ cs + gen.len < gen.busy[j].end
          /\ HalfOpen(cs, cs + gen.len, gen.busy[j])
          /\ ~InOut(cs, cs + gen.len)
    /\ \E cs \in Candidates : \E j \in 1..Len(gen.busy) :
          /\ cs < gen.busy[j].start /\ cs + gen.len > gen.busy[j].end
          /\ ~InOut(cs, cs + gen.len)

\* a busy interval with start >= end on which the two tests disagree
C26_WitnessDegenerate ==
    /\ gen.done
    /\ \E cs \in Candidates : \E j \in 1..Len(gen.busy) :
          /\ gen.busy[j].start >= gen.busy[j].end
          /\ ~HalfOpen(cs, cs + gen.len, gen.busy[j])
          /\ \A k \in 1..Len(gen.busy) : k # j => ~HalfOpen(cs, cs + gen.len, gen.busy[k])
          /\ ~InOut(cs, cs + gen.len)

\* the groups one after the other, from group i on
RECURSIVE Flatten(_, _)
Flatten(groups, i) ==
    IF i > Len(groups) THEN <<>> ELSE groups[i] \o Flatten(groups, i + 1)

StartOf(slot) == dateFromISO(slot.start)

EndOf(slot) == dateFromISO(slot.end)

StrictlyIncreasing(slots) ==
    \A i \in 1..(Len(slots) - 1) : StartOf(slots[i]) < StartOf(slots[i + 1])

NonDecreasing(slots) ==
    \A i \in 1..(Len(slots) - 1) : StartOf(slots[i]) <= StartOf(slots[i + 1])

\* the result is the groups of the ranges in the configured order, each group
\* in strictly increasing start order
GroupedInOrder ==
    /\ gen.out = Flatten(gen.groups, 1)
    /\ \A i \in 1..Len(gen.groups) : StrictlyIncreasing(gen.groups[i])

\* every range starts no earlier than the range before it ends
RangesAscending ==
    \A i \in 1..(Len(gen.ranges) - 1) : gen.ranges[i].end <= gen.ranges[i + 1].start

\* C17 as stated: the result is grouped by range in the configured order,
\* each group strictly increasing in start, and the whole sequence is
\* non-decreasing in start.
C17_OrderedThroughout ==
    gen.done => (GroupedInOrder /\ NonDecreasing(gen.out))

\* C17 amended: the result is grouped by range in the configured order, each
\* group strictly increasing in start; the whole sequence is non-decreasing
\* in start when every range starts no earlier than the range before it ends.
C17_OrderedByRange ==
    gen.done => (GroupedInOrder /\ (RangesAscending => NonDecreasing(gen.out)))

\* two ranges in ascending order that both contributed several slots
C17_Witness ==
    /\ gen.done
    /\ Len(gen.ranges) = 2 /\ RangesAscending
    /\ Len(gen.groups[1]) > 1 /\ Len(gen.groups[2]) > 1
    /\ Len(gen.busy) > 0

\* no two distinct slots of the sequence intersect
PairwiseDisjoint(slots) ==
    \A a, b \in 1..Len(slots) :
        a # b => (EndOf(slots[a]) <= StartOf(slots[b]) \/ EndOf(slots[b]) <= StartOf(slots[a]))

\* C18 as stated: for every slot length, the slots returned for one range are
\* pairwise non-overlapping.
C18_DisjointAnyLength ==
    gen.done => \A i \in 1..Len(gen.groups) : PairwiseDisjoint(gen.groups[i])

\* C18 amended: the slots returned for one range start at least one scan step
\* (30 minutes) apart, and they are pairwise non-overlapping when the slot
\* length does not exceed the scan step.
C18_DisjointUpToStep ==
    gen.done =>
        \A i \in 1..Len(gen.groups) :
            /\ \A a, b \in 1..Len(gen.groups[i]) :
                  a < b => StartOf(gen.groups[i][b]) - StartOf(gen.groups[i][a]) >= StepMinutes
            /\ gen.len <= StepMinutes => PairwiseDisjoint(gen.groups[i])

\* half-hour slots of one range, two of them back to back, with a busy
\* interval in play
C18_Witness ==
    /\ gen.done
    /\ gen.len = StepMinutes
    /\ Len(gen.busy) > 0
    /\ \E i \in 1..Len(gen.groups) : \E a, b \in 1..Len(gen.groups[i]) :
          EndOf(gen.groups[i][a]) = StartOf(gen.groups[i][b])

\* the target date at local hour h, minutes and seconds zero
AtHour(h) == ((gen.date + tz) \div DayMinutes) * DayMinutes - tz + h * HourMinutes

\* the k for which the candidate of range r ends inside the range and passes
\* the overlap test
FreeSteps(r) ==
    { k \in 0..(2 * 24) :
        LET cs == AtHour(r.start) + k * StepMinutes
        IN  /\ cs + gen.len <= AtHour(r.end)
            /\ \A j \in 1..Len(gen.busy) : ~ThreeWay(cs, cs + gen.len, gen.busy[j]) }

\* group i holds exactly the free candidates of range i, earliest first
ExactGroup(i) ==
    LET r == gen.ranges[i]
        g == gen.groups[i]
    IN  /\ Len(g) = Cardinality(FreeSteps(r))
        /\ StrictlyIncreasing(g)
        /\ \A n \in 1..Len(g) :
              /\ \E k \in FreeSteps(r) : StartOf(g[n]) = AtHour(r.start) + k * StepMinutes
              /\ EndOf(g[n]) = StartOf(g[n]) + gen.len
              /\ AtHour(r.start) <= StartOf(g[n]) /\ EndOf(g[n]) <= AtHour(r.end)
        /\ (AtHour(r.end) - AtHour(r.start) < gen.len) => g = <<>>

\* C22: the result is, for each range in order, exactly the candidates
\* rangeStart + k * 30 min of the slot length that end inside the range and
\* pass the overlap test; the step is 30 minutes for every slot length, every
\* slot lies in its range, and a range shorter than the slot length adds none.
C22_ExactGrid ==
    gen.done =>
        /\ gen.out = Flatten(gen.groups, 1)
        /\ \A i \in 1..Len(gen.ranges) : ExactGroup(i)

\* ninety-minute slots on the half-hour grid: two of one range start 30
\* minutes apart, and a busy interval removed some candidate
C22_Witness ==
    /\ gen.done
    /\ gen.len = HourMinutes + StepMinutes
    /\ \E i \in 1..Len(gen.ranges) :
          /\ Len(gen.groups[i]) > 1
          /\ StartOf(gen.groups[i][2]) = StartOf(gen.groups[i][1]) + StepMinutes
          /\ \E k \in 0..(2 * 24) :
                /\ k \notin FreeSteps(gen.ranges[i])
                /\ AtHour(gen.ranges[i].start) + k * StepMinutes + gen.len
                      <= AtHour(gen.ranges[i].end)

----------------------------------------------------------------------------
(* Properties of the extraction and the projector, checked under ProjSpec *)

SupportedForms == {"utc", "local", "iso"}

\* object i of the direct call has data without the VEVENT markers, and bare
\* DTSTART and DTEND lines in a supported date form
BareLines(i) ==
    /\ proj.events[i].data /\ ~proj.events[i].markers
    /\ proj.events[i].dtstart.form \in SupportedForms
    /\ proj.events[i].dtend.form \in SupportedForms

\* C12: for a payload without the VEVENT markers but with bare DTSTART and
\* DTEND lines in a supported form, parseICS returns a descriptor with both
\* start and end set.
C12_FallbackWithoutMarkers ==
    proj.done =>
        \A i \in 1..Len(proj.events) :
            BareLines(i) => (proj.eventData[i].start.ok /\ proj.eventData[i].end.ok)

\* object i of the direct call was decoded to a start and an end instant
Decoded(i) ==
    /\ proj.eventData[i].start.ok /\ proj.eventData[i].end.ok
    /\ ~isInvalidDate(proj.eventData[i].start) /\ ~isInvalidDate(proj.eventData[i].end)

\* 00:00:00.000 of the target day, local time
DayStart == ((proj.date + tz) \div DayMinutes) * DayMinutes - tz

\* x lies in [dayStart, dayEnd]; dayEnd is 23:59:59.999, so a whole minute is
\* at most dayEnd exactly when it is before the next midnight
WithinDay(x) == DayStart <= x /\ x < DayStart + DayMinutes

\* the inclusion rule as the claim words it
IncludedByRule(i) ==
    LET start == proj.eventData[i].start.t
        end == proj.eventData[i].end.t
    IN  \/ WithinDay(start)
        \/ WithinDay(end)
        \/ (start <= DayStart /\ end >= DayStart + DayMinutes)

\* the indexes of the objects the rule keeps, in input order
KeptIndexes ==
    SelectSeq([i \in 1..Len(proj.events) |-> i],
              LAMBDA i : Decoded(i) /\ IncludedByRule(i))

\* C19: the busy list holds exactly the decoded events whose start lies in the
\* day, or whose end lies in the day, or that span the day, each with its full
\* start and end, in input order.
C19_IncludedIffOverlapsDay ==
    proj.done =>
        proj.out = [k \in 1..Len(KeptIndexes) |->
                       [start |-> proj.eventData[KeptIndexes[k]].start.t,
                        end |-> proj.eventData[KeptIndexes[k]].end.t]]

\* an event that spans the whole day is kept with its full extent, and a
\* decoded event outside the day is left out
C19_Witness ==
    /\ proj.done
    /\ Len(proj.events) = 2 /\ Len(proj.out) = 1
    /\ proj.out[1].start < DayStart /\ proj.out[1].end > DayStart + DayMinutes
    /\ \E i \in 1..Len(proj.events) : Decoded(i) /\ ~IncludedByRule(i)

\* object i has no data, or its extraction yields no start or no end, or its
\* processing throws
Unusable(i) ==
    \/ ~proj.events[i].data
    \/ ~proj.eventData[i].start.ok
    \/ ~proj.eventData[i].end.ok
    \/ isInvalidDate(proj.eventData[i].start)
    \/ isInvalidDate(proj.eventData[i].end)

RemoveAt(seq, i) == SubSeq(seq, 1, i - 1) \o SubSeq(seq, i + 1, Len(seq))

\* C20: an object without data, without start or end, or whose processing
\* throws adds nothing to the busy list and leaves the other objects' handling
\* alone: the busy list is the one of the input with that object removed.
C20_UnusableSkipped ==
    proj.done =>
        /\ \A i \in 1..Len(proj.events) :
              Unusable(i) =>
                  proj.out = parseEventsToTimeRanges(RemoveAt(proj.events, i), proj.date)
        /\ Len(proj.out) <= Cardinality({i \in 1..Len(proj.events) : ~Unusable(i)})

\* an object whose processing throws, followed by an event of the day that is
\* kept
C20_Witness ==
    /\ proj.done
    /\ Len(proj.events) = 2
    /\ isInvalidDate(proj.eventData[1].start)
    /\ ~Unusable(2)
    /\ proj.out = <<[start |-> proj.eventData[2].start.t, end |-> proj.eventData[2].end.t]>>

\* the decoded events, whatever their day, as busy intervals in input order
AllDecodedBusy ==
    LET kept == SelectSeq([i \in 1..Len(proj.events) |-> i], LAMBDA i : Decoded(i))
    IN  [k \in 1..Len(kept) |-> [start |-> proj.eventData[kept[k]].start.t,
                                 end |-> proj.eventData[kept[k]].end.t]]

ProperEvents ==
    \A i \in 1..Len(proj.events) :
        Decoded(i) => proj.eventData[i].start.t < proj.eventData[i].end.t

\* C27: the day projection loses nothing the generator needs: with events of
\* start < end, no returned slot intersects a fetched event that has both
\* start and end, and the slots are those generated against all the decoded
\* events without the day filter.
C27_ProjectionLosesNothing ==
    (proj.generated /\ ProperEvents) =>
        /\ \A k \in 1..Len(proj.slots) : \A i \in 1..Len(proj.events) :
              Decoded(i) =>
                  \/ dateFromISO(proj.slots[k].end) <= proj.eventData[i].start.t
                  \/ proj.eventData[i].end.t <= dateFromISO(proj.slots[k].start)
        /\ proj.slots = generateAvailableSlots(proj.date, availableRangesOf(proj.date),
                                               AllDecodedBusy, proj.len)

\* slots were returned, an event blocked some candidates, and the day filter
\* dropped a decoded event
C27_Witness ==
    /\ proj.generated /\ ProperEvents
    /\ Len(proj.slots) > 0
    /\ Len(proj.slots) < Len(generateAvailableSlots(proj.date, availableRangesOf(proj.date),
                                                    <<>>, proj.len))
    /\ Len(proj.out) < Len(AllDecodedBusy)

====
